---- MODULE Spec2Model ----
(***************************************************************************)
(* video_namer (src/src/main.rs): the frame scan (extract_frames and its   *)
(* closure receive_and_process_decoded_frames), the colour classifier      *)
(* (is_blue_dominant), the episode lookups (get_corrected_episode_name and *)
(* the min_by_key lookups of ocr and episode_name) and the batch loop of   *)
(* rename_all.                                                             *)
(***************************************************************************)
EXTENDS Integers, Sequences, FiniteSets, TLC

VARIABLES
    \* ---- extract_frames ----
    video,        \* the input file's video stream (what the decoder will deliver)
    pc,           \* position in extract_frames
    frame_index,  \* main.rs:151
    sent,         \* packets of the selected stream submitted with send_packet
    otherSeen,    \* a packet of another stream has been read from the container
    inside,       \* decoder: packets submitted and not yet delivered or dropped
    eofSent,      \* decoder: send_eof has been called
    lastRecv,     \* outcome of the latest receive_frame call
    pulled,       \* frames delivered by receive_frame so far
    drains,       \* completed calls of receive_and_process_decoded_frames
    calls,        \* frame indices handed to is_blue_dominant, in call order
    result,       \* what extract_frames returned
    \* ---- is_blue_dominant ----
    frame,        \* the frame handed to is_blue_dominant
    verdict,      \* what is_blue_dominant returned
    \* ---- episode lookups ----
    text,         \* the OCR text
    episodes,     \* the catalog, in file order
    site,         \* which lookup ran
    lowest,       \* what the lookup produced
    \* ---- rename_all ----
    files,        \* the globbed files, each with what its steps will do
    catalogEmpty, \* bluey.csv holds no row
    cursor,       \* index of the file the loop is at (1-based)
    renamed,      \* indices of the files renamed
    scanned,      \* indices of the files handed to extract_frames
    batch         \* "running" or how rename_all ended

scanVars  == <<video, pc, frame_index, sent, otherSeen, inside, eofSent, lastRecv,
               pulled, drains, calls, result>>
clsVars   == <<frame, verdict>>
matchVars == <<text, episodes, site, lowest>>
batchVars == <<files, catalogEmpty, cursor, renamed, scanned, batch>>
vars      == <<scanVars, clsVars, matchVars, batchVars>>

-----------------------------------------------------------------------------
(* Policy constants of the program.                                        *)

WARMUP == 900
STRIDE == 30
BLUE_MIN == 230
RED_MAX == 180
GREEN_MAX == 235

(* Bounds of the model.                                                    *)

MaxPackets == 962   \* packets of the selected stream in the container
MaxDelay == 1       \* frames the decoder may hold back before end-of-stream
MaxPixels == 5      \* pixels carried by a frame buffer
MaxWidth == 5
MaxHeight == 1
MaxPad == 1         \* bytes of a buffer after its last whole pixel
MaxName == 2        \* characters of an episode name or OCR text
MaxCatalog == 2     \* rows of the catalog
MaxFiles == 2       \* files matched by the pattern

-----------------------------------------------------------------------------
(* is_blue_dominant, main.rs:188-211                                       *)

NoImage == [width |-> 0, height |-> 0, data |-> <<>>]

\* ImageBuffer::from_raw(width, height, data.to_vec()): None when the buffer
\* is too small for width * height RGB pixels; a longer buffer is accepted.
FromRaw(f) ==
    IF f.width * f.height * 3 <= Len(f.data)
    THEN [ok |-> TRUE, img |-> f]
    ELSE [ok |-> FALSE, img |-> NoImage]

\* img.pixels(): the width * height pixels at the start of the buffer.
PixelAt(img, i) == <<img.data[3 * i + 1], img.data[3 * i + 2], img.data[3 * i + 3]>>

\* main.rs:200
IsBluePixel(p) == p[3] > BLUE_MIN /\ p[1] < RED_MAX /\ p[2] < GREEN_MAX

\* The loop of main.rs:198-204 from pixel i on: <<blue_pixels, total_pixels>>.
RECURSIVE CountPixels(_, _, _, _)
CountPixels(img, i, blue_pixels, total_pixels) ==
    IF i >= img.width * img.height
    THEN <<blue_pixels, total_pixels>>
    ELSE CountPixels(img, i + 1,
                     IF IsBluePixel(PixelAt(img, i)) THEN blue_pixels + 1 ELSE blue_pixels,
                     total_pixels + 1)

ExceedsThresholdGe(blue_pixels, total_pixels) ==
    total_pixels > 0 /\ 10 * blue_pixels >= 8 * total_pixels

\* (blue_pixels as f64 / total_pixels as f64) > 0.8, main.rs:206.  The
\* division is correctly rounded and the literal 0.8 is the double nearest
\* to 8/10: a quotient of exactly 8/10 rounds to the literal, and for fewer
\* than 2^50 pixels any other quotient differs from 8/10 by more than the
\* rounding, so the comparison agrees with the exact one.  0/0 is NaN,
\* which is not greater than anything.
ExceedsThreshold(blue_pixels, total_pixels) ==
    total_pixels > 0 /\ 10 * blue_pixels > 8 * total_pixels

is_blue_dominant(f) ==
    LET raw == FromRaw(f) IN
    IF ~raw.ok
    THEN [kind |-> "err", img |-> NoImage]
    ELSE LET n == CountPixels(raw.img, 0, 0, 0) IN
         IF ExceedsThreshold(n[1], n[2])
         THEN [kind |-> "some", img |-> raw.img]
         ELSE [kind |-> "none", img |-> NoImage]

-----------------------------------------------------------------------------
(* extract_frames, main.rs:132-185                                         *)

BlueFrame == [width |-> 1, height |-> 1, data |-> <<0, 0, 255>>]
RedFrame  == [width |-> 1, height |-> 1, data |-> <<255, 0, 0>>]
\* A frame whose plane 0 is too short for its dimensions.
BadFrame  == [width |-> 1, height |-> 1, data |-> <<255, 0>>]

\* The video streams scanned: frames blueFrom .. blueFrom + blueLen - 1 are
\* blue, the frames in bad are malformed, every other frame is red.
Videos ==
    [blueFrom : {0, WARMUP, WARMUP + STRIDE + 1},
     blueLen  : {STRIDE - 1, MaxPackets + 1},
     bad      : {{}, {WARMUP + STRIDE}}]

\* The n-th frame (from 0) the decoder delivers for video v.
FrameAt(v, n) ==
    IF n \in v.bad THEN BadFrame
    ELSE IF v.blueFrom <= n /\ n < v.blueFrom + v.blueLen THEN BlueFrame
    ELSE RedFrame

Pending == [kind |-> "pending", index |-> 0, img |-> NoImage, why |-> ""]
Found(img, i) == [kind |-> "match", index |-> i, img |-> img, why |-> ""]
NotFound == [kind |-> "none", index |-> 0, img |-> NoImage, why |-> ""]
Failed(why) == [kind |-> "err", index |-> 0, img |-> NoImage, why |-> why]

ShouldSampleGe(i) == i >= WARMUP /\ i % STRIDE = 0

ShouldSampleNoWarmup(i) == i % STRIDE = 0

\* main.rs:158
ShouldSample(i) == i > WARMUP /\ i % STRIDE = 0

\* What the body of the while loop does with decoded frame f at counter i
\* (main.rs:158-164); converted: scaler.run succeeded.
ProcessFrame(f, i, converted) ==
    IF ShouldSample(i)
    THEN IF ~converted
         THEN [kind |-> "err", why |-> "convert", called |-> FALSE, img |-> NoImage]
         ELSE LET v == is_blue_dominant(f) IN
              CASE v.kind = "err"  -> [kind |-> "err", why |-> "classify", called |-> TRUE, img |-> NoImage]
                [] v.kind = "some" -> [kind |-> "match", why |-> "", called |-> TRUE, img |-> v.img]
                [] v.kind = "none" -> [kind |-> "continue", why |-> "", called |-> TRUE, img |-> NoImage]
    ELSE [kind |-> "continue", why |-> "", called |-> FALSE, img |-> NoImage]

NextIndexUnsampledOnly(i, called) == IF called THEN i ELSE i + 1

\* frame_index += 1, main.rs:165: on every frame that did not end the scan.
NextIndex(i, called) == i + 1

\* decoder.receive_frame: a frame, "no frame yet" (again), the end of the
\* drained stream (eof), or a decode failure (invalid), which delivers
\* nothing.  Before end-of-stream the decoder holds back at most MaxDelay
\* frames.
RecvOutcomes ==
    {r \in {"frame", "again", "eof", "invalid"} :
        \/ r = "frame" /\ inside > 0
        \/ r = "again" /\ ~eofSent /\ inside <= MaxDelay
        \/ r = "eof" /\ eofSent /\ inside = 0
        \/ r = "invalid" /\ inside > 0 /\ (eofSent \/ inside <= MaxDelay)}

ScanInit ==
    /\ video \in Videos
    /\ pc = "open"
    /\ frame_index = 0
    /\ sent = 0
    /\ otherSeen = FALSE
    /\ inside = 0
    /\ eofSent = FALSE
    /\ lastRecv = "none"
    /\ pulled = 0
    /\ drains = 0
    /\ calls = <<>>
    /\ result = Pending

\* main.rs:133-152: open the input, pick the stream, build decoder and scaler.
OpenInput ==
    /\ pc = "open"
    /\ \E outcome \in {"ok", "input", "stream", "decoder", "scaler"} :
         IF outcome = "ok"
         THEN /\ pc' = "packets"
              /\ frame_index' = 0
              /\ result' = result
         ELSE /\ pc' = "done"
              /\ result' = Failed(outcome)
              /\ frame_index' = frame_index
    /\ UNCHANGED <<video, sent, otherSeen, inside, eofSent, lastRecv, pulled, drains, calls>>
    /\ UNCHANGED <<clsVars, matchVars, batchVars>>

\* main.rs:171-173: the next packet of the container, submitted when it
\* belongs to the selected stream; past the last packet the loop ends.
NextPacket ==
    /\ pc = "packets"
    /\ \/ /\ pc' = "eof"
          /\ UNCHANGED <<sent, otherSeen, inside, result>>
       \/ /\ otherSeen' = TRUE
          /\ UNCHANGED <<pc, sent, inside, result>>
       \/ /\ sent < MaxPackets
          /\ \E ok \in BOOLEAN :
               IF ok
               THEN /\ sent' = sent + 1
                    /\ inside' = inside + 1
                    /\ pc' = "drain"
                    /\ result' = result
               ELSE /\ pc' = "done"
                    /\ result' = Failed("send")
                    /\ UNCHANGED <<sent, inside>>
          /\ otherSeen' = otherSeen
    /\ UNCHANGED <<video, frame_index, eofSent, lastRecv, pulled, drains, calls>>
    /\ UNCHANGED <<clsVars, matchVars, batchVars>>

SendEofSkipped ==
    /\ pc = "eof"
    /\ pc' = "done"
    /\ result' = NotFound
    /\ UNCHANGED <<video, frame_index, sent, otherSeen, inside, eofSent, lastRecv,
                   pulled, drains, calls>>
    /\ UNCHANGED <<clsVars, matchVars, batchVars>>

\* main.rs:179
SendEof ==
    /\ pc = "eof"
    /\ \E ok \in BOOLEAN :
         IF ok
         THEN /\ eofSent' = TRUE
              /\ pc' = "drain"
              /\ result' = result
         ELSE /\ pc' = "done"
              /\ result' = Failed("eof")
              /\ eofSent' = eofSent
    /\ UNCHANGED <<video, frame_index, sent, otherSeen, inside, lastRecv, pulled, drains, calls>>
    /\ UNCHANGED <<clsVars, matchVars, batchVars>>

\* One turn of the while loop of receive_and_process_decoded_frames
\* (main.rs:157-168), and what its caller does when the closure returns
\* (main.rs:174-177 while feeding, main.rs:180-184 after send_eof).
ReceiveFrame ==
    /\ pc = "drain"
    /\ \E r \in RecvOutcomes :
         /\ lastRecv' = r
         /\ IF r = "frame"
            THEN /\ pulled' = pulled + 1
                 /\ inside' = inside - 1
                 /\ drains' = drains
                 /\ \E converted \in BOOLEAN :
                      LET out == ProcessFrame(FrameAt(video, pulled), frame_index, converted) IN
                      /\ calls' = IF out.called THEN Append(calls, frame_index) ELSE calls
                      /\ CASE out.kind = "match" ->
                                /\ result' = Found(out.img, frame_index)
                                /\ pc' = "done"
                                /\ frame_index' = frame_index
                           [] out.kind = "err" ->
                                /\ result' = Failed(out.why)
                                /\ pc' = "done"
                                /\ frame_index' = frame_index
                           [] out.kind = "continue" ->
                                /\ frame_index' = NextIndex(frame_index, out.called)
                                /\ pc' = pc
                                /\ result' = result
            ELSE /\ inside' = inside
                 /\ drains' = drains + 1
                 /\ IF eofSent
                    THEN pc' = "done" /\ result' = NotFound
                    ELSE pc' = "packets" /\ result' = result
                 /\ UNCHANGED <<frame_index, pulled, calls>>
    /\ UNCHANGED <<video, sent, otherSeen, eofSent>>
    /\ UNCHANGED <<clsVars, matchVars, batchVars>>


-----------------------------------------------------------------------------
(* The frames handed to is_blue_dominant on its own.                       *)

\* One pixel that passes the test of main.rs:200 and, for each of its three
\* comparisons, one that fails that comparison alone.
Pixels ==
    {<<RED_MAX - 1, GREEN_MAX - 1, BLUE_MIN + 1>>,
     <<RED_MAX,     GREEN_MAX - 1, BLUE_MIN + 1>>,
     <<RED_MAX - 1, GREEN_MAX,     BLUE_MIN + 1>>,
     <<RED_MAX - 1, GREEN_MAX - 1, BLUE_MIN>>}

\* frame.data(0): the bytes of the pixels ps followed by pad more bytes.
PlaneOf(ps, pad) ==
    [i \in 1..(3 * Len(ps) + pad) |->
        IF i <= 3 * Len(ps) THEN ps[((i - 1) \div 3) + 1][((i - 1) % 3) + 1] ELSE 0]

\* A decoded frame: its dimensions and plane 0, of any length.
ClsInit ==
    /\ \E w \in 0..MaxWidth, h \in 0..MaxHeight, pad \in 0..MaxPad, n \in 0..MaxPixels :
         \E ps \in [1..n -> Pixels] :
            frame = [width |-> w, height |-> h, data |-> PlaneOf(ps, pad)]
    /\ verdict = [kind |-> "idle", img |-> NoImage]

\* A call of is_blue_dominant, main.rs:161.
Classify ==
    /\ verdict.kind = "idle"
    /\ verdict' = is_blue_dominant(frame)
    /\ frame' = frame
    /\ UNCHANGED <<scanVars, matchVars, batchVars>>

-----------------------------------------------------------------------------
(* The episode lookups, main.rs:77, 97-100, 119-122, 219-223               *)

Chars == {"a", "b"}
Names == UNION {[1..n -> Chars] : n \in 0..MaxName}

\* struct Episode, main.rs:260-265; the label of a row is its row number.
Catalogs ==
    {[i \in DOMAIN names |-> [name |-> names[i], season_and_episode |-> i]] :
        names \in UNION {[1..n -> Names] : n \in 0..MaxCatalog}}

Min2(x, y) == IF x <= y THEN x ELSE y
Max2(x, y) == IF x >= y THEN x ELSE y

\* strsim::levenshtein: the edit distance of a and b.
RECURSIVE levenshtein(_, _)
levenshtein(a, b) ==
    IF Len(a) = 0 THEN Len(b)
    ELSE IF Len(b) = 0 THEN Len(a)
    ELSE Min2(Min2(levenshtein(Tail(a), b) + 1, levenshtein(a, Tail(b)) + 1),
              levenshtein(Tail(a), Tail(b)) + (IF Head(a) = Head(b) THEN 0 ELSE 1))

\* strsim::normalized_levenshtein(a, b) as usize: 1.0 for two empty strings,
\* otherwise 1.0 - distance / max(len a, len b), a value in [0, 1]; the cast
\* drops the fraction.
normalized_levenshtein_as_usize(a, b) ==
    IF Len(a) = 0 /\ Len(b) = 0 THEN 1
    ELSE (Max2(Len(a), Len(b)) - levenshtein(a, b)) \div Max2(Len(a), Len(b))

\* Iterator::min_by_key over keys, from position i with the best position so
\* far: the first of several equal minima is kept; 0 stands for None.
RECURSIVE MinByKeyFrom(_, _, _)
MinByKeyFrom(keys, i, best) ==
    IF i > Len(keys) THEN best
    ELSE MinByKeyFrom(keys, i + 1,
                      IF best = 0 \/ keys[i] < keys[best] THEN i ELSE best)

min_by_key(keys) == MinByKeyFrom(keys, 1, 0)

\* main.rs:219-223: the position of the returned episode, 0 for None.
get_corrected_episode_name(candiate_name, eps) ==
    min_by_key([i \in 1..Len(eps) |-> levenshtein(eps[i].name, candiate_name)])

MatchInit ==
    /\ text \in Names
    /\ episodes \in Catalogs
    /\ site = "idle"
    /\ lowest = [kind |-> "idle", at |-> 0]

\* main.rs:77: get_corrected_episode_name(..).unwrap() in rename_all.
RenameAllLookup ==
    /\ site = "idle"
    /\ site' = "rename_all"
    /\ LET at == get_corrected_episode_name(text, episodes) IN
       lowest' = IF at = 0 THEN [kind |-> "panic", at |-> 0] ELSE [kind |-> "ok", at |-> at]
    /\ UNCHANGED <<text, episodes>>
    /\ UNCHANGED <<scanVars, clsVars, batchVars>>

\* main.rs:97-100: the lookup of the ocr command.
OcrLookup ==
    /\ site = "idle"
    /\ site' = "ocr"
    /\ LET at == min_by_key([i \in 1..Len(episodes) |-> levenshtein(episodes[i].name, text)]) IN
       lowest' = IF at = 0 THEN [kind |-> "err", at |-> 0] ELSE [kind |-> "ok", at |-> at]
    /\ UNCHANGED <<text, episodes>>
    /\ UNCHANGED <<scanVars, clsVars, batchVars>>

\* main.rs:119-122: the lookup of the episode_name command.
EpisodeNameLookup ==
    /\ site = "idle"
    /\ site' = "episode_name"
    /\ LET at == min_by_key([i \in 1..Len(episodes) |->
                                normalized_levenshtein_as_usize(episodes[i].name, text)]) IN
       lowest' = IF at = 0 THEN [kind |-> "err", at |-> 0] ELSE [kind |-> "ok", at |-> at]
    /\ UNCHANGED <<text, episodes>>
    /\ UNCHANGED <<scanVars, clsVars, batchVars>>

-----------------------------------------------------------------------------
(* rename_all, main.rs:58-89                                               *)

\* What the steps on one file will do: extract_frames (a match, no match or
\* an error), get_episode_name (a text or "No text detected") and
\* std::fs::rename.
FileKinds == [scan : {"match", "none", "err"}, ocr : {"text", "no_text"}, rename : {"ok", "fail"}]

BatchInit ==
    /\ files \in UNION {[1..n -> FileKinds] : n \in 0..MaxFiles}
    /\ catalogEmpty \in BOOLEAN
    /\ cursor = 1
    /\ renamed = {}
    /\ scanned = {}
    /\ batch = "running"

\* One turn of the for loop, main.rs:67-87; every ? returns from rename_all.
ProcessFile ==
    /\ batch = "running"
    /\ cursor <= Len(files)
    /\ scanned' = scanned \cup {cursor}
    /\ LET f == files[cursor] IN
       CASE f.scan = "err" ->
              batch' = "err" /\ UNCHANGED <<cursor, renamed>>
         [] f.scan = "none" ->
              cursor' = cursor + 1 /\ UNCHANGED <<batch, renamed>>
         [] f.scan = "match" /\ f.ocr = "no_text" ->
              batch' = "err" /\ UNCHANGED <<cursor, renamed>>
         [] f.scan = "match" /\ f.ocr = "text" /\ catalogEmpty ->
              batch' = "panic" /\ UNCHANGED <<cursor, renamed>>
         [] f.scan = "match" /\ f.ocr = "text" /\ ~catalogEmpty /\ f.rename = "fail" ->
              batch' = "err" /\ UNCHANGED <<cursor, renamed>>
         [] f.scan = "match" /\ f.ocr = "text" /\ ~catalogEmpty /\ f.rename = "ok" ->
              /\ renamed' = renamed \cup {cursor}
              /\ cursor' = cursor + 1
              /\ batch' = batch
    /\ UNCHANGED <<files, catalogEmpty>>
    /\ UNCHANGED <<scanVars, clsVars, matchVars>>

\* main.rs:88
FinishBatch ==
    /\ batch = "running"
    /\ cursor > Len(files)
    /\ batch' = "ok"
    /\ UNCHANGED <<files, catalogEmpty, cursor, renamed, scanned>>
    /\ UNCHANGED <<scanVars, clsVars, matchVars>>

-----------------------------------------------------------------------------
(* Specifications.                                                         *)

ScanIdle ==
    /\ video = [blueFrom |-> 0, blueLen |-> 0, bad |-> {}]
    /\ pc = "idle"
    /\ frame_index = 0
    /\ sent = 0
    /\ otherSeen = FALSE
    /\ inside = 0
    /\ eofSent = FALSE
    /\ lastRecv = "none"
    /\ pulled = 0
    /\ drains = 0
    /\ calls = <<>>
    /\ result = Pending
ClsIdle == frame = NoImage /\ verdict = [kind |-> "off", img |-> NoImage]
MatchIdle == text = <<>> /\ episodes = <<>> /\ site = "off" /\ lowest = [kind |-> "off", at |-> 0]
BatchIdle ==
    /\ files = <<>>
    /\ catalogEmpty = FALSE
    /\ cursor = 1
    /\ renamed = {}
    /\ scanned = {}
    /\ batch = "off"

\* A scan of one file.
Init == ScanInit /\ ClsIdle /\ MatchIdle /\ BatchIdle
Next == OpenInput \/ NextPacket \/ SendEof \/ ReceiveFrame
Spec == Init /\ [][Next]_vars

\* The scans of the videos in which no frame above WARMUP on the STRIDE is
\* blue.  extract_frames is sequential code: a step that can be taken is.
NoMatchVideos ==
    {v \in Videos : \A n \in 0..MaxPackets :
        ShouldSample(n) => ~(v.blueFrom <= n /\ n < v.blueFrom + v.blueLen)}
FairInit == Init /\ video \in NoMatchVideos
FairSpec == FairInit /\ [][Next]_vars /\ WF_vars(Next)

\* is_blue_dominant applied to one frame.
ClassifyInit == ScanIdle /\ ClsInit /\ MatchIdle /\ BatchIdle
ClassifyNext == Classify
ClassifySpec == ClassifyInit /\ [][ClassifyNext]_vars

\* One episode lookup.
LookupInit == ScanIdle /\ ClsIdle /\ MatchInit /\ BatchIdle
LookupNext == RenameAllLookup \/ OcrLookup \/ EpisodeNameLookup
LookupSpec == LookupInit /\ [][LookupNext]_vars

\* One run of rename_all.
RenameInit == ScanIdle /\ ClsIdle /\ MatchIdle /\ BatchInit
RenameNext == ProcessFile \/ FinishBatch
RenameSpec == RenameInit /\ [][RenameNext]_vars

-----------------------------------------------------------------------------
(* Properties of the scan.                                                 *)

\* Frame n of the video classifies positive.
Positive(n) == is_blue_dominant(FrameAt(video, n)).kind = "some"

C1_Match ==
    result.kind = "match" =>
        LET k == result.index IN
        /\ pc = "done"
        /\ k > 900 /\ k % 30 = 0
        /\ pulled = k + 1
        /\ result.img = FrameAt(video, k)
        /\ Positive(k)
        /\ \A j \in 901..(k - 1) : ~(j % 30 = 0 /\ Positive(j))
        /\ Len(calls) > 0 /\ calls[Len(calls)] = k

C1_Stop ==
    result.kind = "match" => UNCHANGED <<sent, inside, eofSent, pulled, calls, result>>

\* C1: a returned match (image, k) is the first decoded frame that is
\* eligible (k > 900, k mod 30 = 0) and classifies positive, the image is
\* that frame, and once it is found no packet is submitted, no frame is
\* pulled and the classifier is not called again.
C1_FirstMatchShortCircuit == [](C1_Match) /\ [][C1_Stop]_vars

C1_Witness == result.kind = "match" /\ result.index = 960 /\ otherSeen

C2_None ==
    /\ result.kind = "none" =>
         /\ pc = "done"
         /\ eofSent
         /\ lastRecv \in {"eof", "invalid"}
         /\ drains = sent + 1
         /\ \A j \in 901..(pulled - 1) : ~(j % 30 = 0 /\ Positive(j))
    /\ (/\ pc = "done"
        /\ result.kind # "err"
        /\ \A j \in 901..(pulled - 1) : ~(j % 30 = 0 /\ Positive(j)))
         => result.kind = "none"

C3_Eligible ==
    /\ \A n \in 1..Len(calls) : calls[n] > 900 /\ calls[n] % 30 = 0
    /\ \A j \in 901..(frame_index - 1) :
         j % 30 = 0 => \E n \in 1..Len(calls) : calls[n] = j
    /\ (video.blueFrom = 900 /\ video.blueLen > 100 /\ video.bad = {}) =>
         /\ frame_index <= 930
         /\ result.kind = "match" => result.index = 930

\* C3: the classifier is called on a frame exactly when its index is above
\* 900 and a multiple of 30, so never on frames 0..900; when frames 0..899
\* do not match and every frame from 900 on does, the scan returns 930.
C3_SampledExactlyWhenEligible == C3_Eligible

C3_Witness ==
    /\ video.blueFrom = 900 /\ video.blueLen > 100 /\ video.bad = {}
    /\ result.kind = "match" /\ result.index = 930

InFrame ==
    IF result.kind = "match" \/ (result.kind = "err" /\ result.why \in {"convert", "classify"})
    THEN 1 ELSE 0

C8_Counter ==
    /\ pc = "open" => frame_index = 0
    /\ frame_index = pulled - InFrame
    /\ Len(calls) <= pulled
    /\ \A n \in 1..Len(calls) : calls[n] > 900 /\ calls[n] % 30 = 0
    /\ \A m, n \in 1..Len(calls) : m < n => calls[m] < calls[n]

C8_Step ==
    /\ frame_index' - frame_index \in {0, 1}
    /\ pulled' = pulled => frame_index' = frame_index
    /\ Len(calls') - Len(calls) <= pulled' - pulled

\* C8: the frame counter starts at 0 and counts the frames pulled from the
\* decoder and fully processed: +1 per decoded frame, sampled or not,
\* unchanged by any step that pulls no frame (other streams' packets, a
\* packet yielding no frame, the switch to the flush phase); the classifier
\* is called at most once per decoded frame, on eligible frames only.
C8_FrameCounter == [](C8_Counter) /\ [][C8_Step]_vars

C8_Witness ==
    /\ eofSent /\ lastRecv = "frame" /\ pc = "drain"
    /\ otherSeen
    /\ frame_index = 931 /\ calls = <<930>>

\* C10: a failure while submitting a packet, pulling a frame (other than
\* "no frame yet" or end of stream), converting or classifying a frame makes
\* extract_frames return an error at once.
C10_DecodeFailureAborts ==
    lastRecv = "invalid" => (pc = "done" /\ result.kind = "err")

-----------------------------------------------------------------------------
(* Properties of the classifier.                                           *)

\* The pixels of the frame that qualify, counted without the loop.
Qualifying ==
    Cardinality({i \in 0..(frame.width * frame.height - 1) :
        /\ frame.data[3 * i + 3] > 230
        /\ frame.data[3 * i + 1] < 180
        /\ frame.data[3 * i + 2] < 235})

\* C4: is_blue_dominant returns the frame exactly when the pixels with
\* blue > 230, red < 180 and green < 235 are strictly more than 80% of all
\* pixels (5 * matching > 4 * total); exactly 80% is no match, and blue =
\* 230, red = 180 or green = 235 disqualifies a pixel.
C4_StrictlyOver80Percent ==
    verdict.kind \in {"some", "none"} =>
        /\ verdict.kind = "some" <=> 5 * Qualifying > 4 * frame.width * frame.height
        /\ verdict.kind = "some" => verdict.img = frame

C4_Witness ==
    /\ verdict.kind = "none"
    /\ frame.width * frame.height = 5
    /\ Len(frame.data) = 15
    /\ Qualifying = 4

\* C9: is_blue_dominant fails whenever the length of plane 0 differs from
\* width * height * 3, whether the buffer is shorter or longer.
C9_LengthMismatchFails ==
    (verdict.kind \in {"some", "none", "err"}
        /\ Len(frame.data) # frame.width * frame.height * 3)
      => verdict.kind = "err"

-----------------------------------------------------------------------------
(* Properties of the episode lookups.                                      *)

Distance(i) == levenshtein(episodes[i].name, text)

\* C5: get_corrected_episode_name and the lookup of ocr return an entry of
\* minimum edit distance, the first of them in catalog order; on an empty
\* catalog the lookup is an error result, also in rename_all.
C5_FirstMinimumOrNotFound ==
    site \in {"rename_all", "ocr"} =>
        IF episodes = <<>>
        THEN lowest.kind = "err"
        ELSE /\ lowest.kind = "ok"
             /\ \A i \in 1..Len(episodes) : Distance(lowest.at) <= Distance(i)
             /\ \A i \in 1..(lowest.at - 1) : Distance(lowest.at) < Distance(i)

\* C6: in episode_name, a text equal to the name of exactly one catalog
\* entry yields that entry, whatever its position.
C6_ExactNameIsClosest ==
    (/\ site = "episode_name"
     /\ Cardinality({i \in 1..Len(episodes) : episodes[i].name = text}) = 1)
      => /\ lowest.kind = "ok"
         /\ episodes[lowest.at].name = text

-----------------------------------------------------------------------------
(* Properties of rename_all.                                               *)

\* C7: with a catalog to match against and every scan succeeding, a file
\* whose OCR, match or rename fails does not stop the batch: when rename_all
\* ends every file has been scanned, and every file that has a title card
\* and no failure of its own has been renamed.
C7_FailureStaysWithItsFile ==
    (/\ batch \in {"ok", "err", "panic"}
     /\ ~catalogEmpty
     /\ \A j \in 1..Len(files) : files[j].scan # "err")
      => \A j \in 1..Len(files) :
            /\ j \in scanned
            /\ (files[j].scan = "match" /\ files[j].ocr = "text" /\ files[j].rename = "ok")
                 => j \in renamed

====
